---- MODULE Spec2Model ----
(***************************************************************************)
(* docsify-github-tracker: the cache-and-refresh engine of the plugin.     *)
(*                                                                         *)
(* src/docsify-github-tracker.js holds three successive versions of the    *)
(* plugin.  The two that have a cache are modelled; `version` says which   *)
(* one is deployed:                                                        *)
(*   version 2  lines 154-473  cache + date filtering + header             *)
(*   version 3  lines 474-707  cache + time-to-live + rate-limit handling  *)
(*                                                                         *)
(* JavaScript values.  A string is a TLA+ string; a rendered text is a     *)
(* sequence of segments, each segment a tuple of strings; `undefined` and  *)
(* `null` are the markers Undefined and Null.  A task runs without         *)
(* interruption between two awaits of a network request, so every action   *)
(* below is the code between two such awaits.                              *)
(***************************************************************************)
EXTENDS Integers, Sequences, FiniteSets, TLC

\* ----------------------------------------------------------------- bounds
MaxTicks == 2       \* clock advances per behaviour
MaxRemote == 1      \* pushes to a remote repository per behaviour
MaxHooks == 2       \* page renderings (beforeEach invocations) per behaviour

\* ------------------------------------------------------ program constants
cacheTime == 5 * 60 * 1000
DayMs == 24 * 60 * 60 * 1000

\* ------------------------------------------------------------- JS values
Undefined == "<undefined>"
Null == "<null>"
NaN == -1
Truthy(s) == s \notin {Undefined, Null, ""}
\* `${x}`: template interpolation of a string or of undefined / null
Str(s) == CASE s = Undefined -> "undefined" [] s = Null -> "null" [] OTHER -> s

\* s.split('-'): joining strings with '-' is concatenating these part lists
Hy(s) ==
  CASE s = "docsify-github-tracker" -> <<"docsify", "github", "tracker">>
    [] s = "tracker-2025/01/18-2025/01/20" -> <<"tracker", "2025/01/18", "2025/01/20">>
    [] OTHER -> <<s>>

\* dateStr.split('/').map(Number); a component that is not a number is NaN
DateParts(s) ==
  CASE s = "2025/01/18" -> <<2025, 1, 18>>
    [] s = "2025/01/20" -> <<2025, 1, 20>>
    [] s = "2025/11/02" -> <<2025, 11, 2>>
    [] s = "2025/11/03" -> <<2025, 11, 3>>
    [] s = "2025/02/30" -> <<2025, 2, 30>>
    [] s = "2025/13/01" -> <<2025, 13, 1>>
    [] s = "2025/00/10" -> <<2025, 0, 10>>
    [] s = "2025/01" -> <<2025, 1>>
    [] s = "soon" -> <<NaN>>
    [] OTHER -> <<NaN>>

\* ------------------------------------------------------------- DateRange
IsLeap(y) == (y % 4 = 0 /\ y % 100 # 0) \/ y % 400 = 0
DaysInYear(y) == IF IsLeap(y) THEN 366 ELSE 365
\* ECMAScript DayFromYear: the day number of 1 January of year y
DayFromYear(y) ==
  365 * (y - 1970) + ((y - 1969) \div 4) - ((y - 1901) \div 100) + ((y - 1601) \div 400)
MonthLen(y, m) ==
  CASE m = 1 -> IF IsLeap(y) THEN 29 ELSE 28
    [] m \in {3, 5, 8, 10} -> 30
    [] OTHER -> 31
RECURSIVE DaysBeforeMonth(_, _)
DaysBeforeMonth(y, m) ==
  IF m = 0 THEN 0 ELSE DaysBeforeMonth(y, m - 1) + MonthLen(y, m - 1)
\* Date.UTC(year, monthIndex, day) in days: an index or a day out of range
\* carries over into the next month or year; a year 0..99 means 1900 + year
DateUTC(year, monthIndex, day) ==
  LET y0 == IF year \in 0..99 THEN 1900 + year ELSE year
      y == y0 + (monthIndex \div 12)
      m == monthIndex % 12
  IN DayFromYear(y) + DaysBeforeMonth(y, m) + day - 1

NoTime == [ok |-> FALSE, day |-> 0]
\* parseDateTime: the instant is day * DayMs; NoTime is the `null` of the catch
parseDateTime(dateStr) ==
  IF dateStr \in {Undefined, Null} THEN NoTime     \* .split of undefined throws
  ELSE
    LET p == DateParts(dateStr)
        year == IF Len(p) >= 1 THEN p[1] ELSE NaN
        month == IF Len(p) >= 2 THEN p[2] ELSE NaN
        day == IF Len(p) >= 3 THEN p[3] ELSE NaN
    IN IF year \in {0, NaN} \/ month \in {0, NaN} \/ day \in {0, NaN}
       THEN NoTime
       ELSE [ok |-> TRUE, day |-> DateUTC(year, month - 1, day)]

\* an instant is <<day, ms of the day>>; Infinity is Inf
Inf == <<1000000, 0>>
Geq(a, b) == a[1] > b[1] \/ (a[1] = b[1] /\ a[2] >= b[2])
Less(a, b) == ~Geq(a, b)
\* the number a parse result is coerced to: null is 0
TimeOf(p) == IF p.ok THEN <<p.day, 0>> ELSE <<0, 0>>
\* start ? parseDateTime(start) : 0
StartTime(start) == IF Truthy(start) THEN TimeOf(parseDateTime(start)) ELSE <<0, 0>>
\* stop ? parseDateTime(stop) + (24 * 60 * 60 * 1000) : Infinity
StopTime(stop) ==
  IF Truthy(stop) THEN <<TimeOf(parseDateTime(stop))[1] + 1, 0>> ELSE Inf

\* (mutant) the upper bound is midnight of the stop day itself
filterEventsByDateStopExclusive(events, start, stop) ==
  IF ~Truthy(start) /\ ~Truthy(stop) THEN events
  ELSE SelectSeq(events, LAMBDA e:
         /\ Geq(e.created, StartTime(start))
         /\ Less(e.created, IF Truthy(stop) THEN TimeOf(parseDateTime(stop)) ELSE Inf))
\* filterEventsByDate / the inline filter of fetchEvents:
\* keeps e with startTime <= e.created_at < stopTime, when start or stop is given
filterEventsByDate(events, start, stop) ==
  IF ~Truthy(start) /\ ~Truthy(stop) THEN events
  ELSE SelectSeq(events, LAMBDA e:
         Geq(e.created, StartTime(start)) /\ Less(e.created, StopTime(stop)))

\* -------------------------------------------------------- EventFormatter
\* An event of the feed.  payload: the fields its type's rendering reads are
\* there; dollar: its message holds the two characters "$&".
Event(id, type, day, ms, payload, dollar) ==
  [id |-> id, type |-> type, created |-> <<day, ms>>, payload |-> payload,
   dollar |-> dollar]
PayloadTypes ==
  {"PushEvent", "CreateEvent", "IssuesEvent", "PullRequestEvent", "IssueCommentEvent"}
\* formatEvent: one line, or '' (no line) when reading the payload throws
formatEvent(event) ==
  IF event.type \in PayloadTypes /\ ~event.payload THEN <<>>
  ELSE << <<"event", event.id>> \o (IF event.dollar THEN <<"$&">> ELSE <<>>) >>
\* (mutant) the first event that cannot be formatted ends the batch
RECURSIVE FormatAllStopsAtError(_)
FormatAllStopsAtError(events) ==
  IF events = <<>> \/ formatEvent(Head(events)) = <<>> THEN <<>>
  ELSE formatEvent(Head(events)) \o FormatAllStopsAtError(Tail(events))
\* events.map(formatEvent).filter(Boolean).join('\n')
RECURSIVE FormatAll(_)
FormatAll(events) ==
  IF events = <<>> THEN <<>> ELSE formatEvent(Head(events)) \o FormatAll(Tail(events))

\* formatHeader (version 2): the repository line, then the range line
formatHeader(user, repo, start, stop) ==
  << <<"Repository", Str(repo), Str(user)>> >> \o
  (IF Truthy(start) /\ Truthy(stop)
   THEN LET startTime == parseDateTime(start)
            stopTime == parseDateTime(stop)
        IN IF startTime.ok /\ stopTime.ok
           THEN << <<"Events from", ToString(startTime.day), "to", ToString(stopTime.day)>> >>
           ELSE <<>>
   ELSE << <<"Latest events">> >>)

\* ----------------------------------------------------------- cache keys
\* getCacheKey (version 2); version 3 builds `gh-tracker-${user}-${repo}` inline
getCacheKey(ver, user, repo, start, stop) ==
  <<"gh", "tracker">> \o Hy(Str(user)) \o Hy(Str(repo)) \o
  (IF ver = 2 /\ Truthy(start) /\ Truthy(stop) THEN Hy(start) \o Hy(stop) ELSE <<>>)

\* --------------------------------------------------------- rendered texts
\* A value that is not a string (what an incompatible writer left as `data`)
NonString == << <<"#number", "42">> >>
NoResult == << <<"#pending">> >>
IsString(v) == v # NonString /\ v # NoResult
\* if (cached), formatted || ..., if (formatted): '' is the only falsy text
TruthyText(v) == v # <<>>
NoEventsInRange == << <<"No events found in specified date range">> >>
NoEventsFound == << <<"No events found">> >>
ErrorText(ver, user, repo, start, stop, message) ==
  IF ver = 2 THEN formatHeader(user, repo, start, stop) \o << <<"Error:", message>> >>
  ELSE << <<"Error fetching GitHub events:", message>> >>
RateLimitText(resetMs) == << <<"GitHub API rate limit exceeded. Resets at", ToString(resetMs)>> >>
WarningLine(remaining, resetMs) ==
  << <<"GitHub API rate limit:", Str(remaining), "requests remaining. Resets at", ToString(resetMs)>> >>

\* ------------------------------------------------------ the remote source
\* The events of a repository, most recent first, after its v-th push.
Jan(d) == DateUTC(2025, 0, d)
Catalog ==
  << Event("e1", "PushEvent", Jan(18), 0, TRUE, FALSE),
     Event("e2", "IssuesEvent", Jan(20), DayMs - 1, FALSE, FALSE),
     Event("e3", "PushEvent", Jan(21), 0, TRUE, TRUE),
     Event("e4", "WatchEvent", Jan(22), 5, FALSE, FALSE) >>
Min(a, b) == IF a < b THEN a ELSE b
RECURSIVE Reverse(_)
Reverse(q) == IF q = <<>> THEN <<>> ELSE Reverse(Tail(q)) \o <<Head(q)>>
\* "docsify-github-tracker" starts with two events, any other repository with none
Feed(repo, v) ==
  Reverse(SubSeq(Catalog, 1,
                 Min(Len(Catalog), IF repo = "docsify-github-tracker" THEN v + 2 ELSE v)))
\* the ETag of GET /repos/{user}/{repo} after the v-th push
ETagOf(user, repo, v) == <<Str(user), Str(repo), ToString(v)>>
NoEtag == <<Undefined>>      \* the entry was written without an etag
NullEtag == <<Null>>         \* the response had no ETag header

\* What the remote source can answer to GET .../events.  status 0: the request
\* fails (fetch rejects).  body: "array" (the feed), "object" (an error
\* message), "garbage" (not JSON).
Response(status, remaining, reset, body) ==
  [status |-> status, remaining |-> remaining, reset |-> reset, body |-> body]
EventsResponses ==
  { Response(0, Null, Null, "garbage"),
    Response(200, "60", "400", "array"),
    Response(200, "5", "400", "array"),
    Response(200, Null, Null, "array"),
    Response(200, "60", "400", "garbage"),
    Response(403, "0", "400", "object"),
    Response(403, "5", "400", "object"),
    Response(403, Null, Null, "object"),
    Response(404, Null, Null, "object") }
Ok(resp) == resp.status \in 200..299
\* new Date(header * 1000), in ms: a missing header gives 0
ResetMs(reset) == CASE reset = "400" -> 400000 [] OTHER -> 0
\* parseInt(header); NaN for a missing header
ParseInt(h) == CASE h = "0" -> 0 [] h = "5" -> 5 [] h = "60" -> 60 [] OTHER -> NaN
\* What it can answer to the conditional GET /repos/{user}/{repo}: 304 only
\* when the token sent is the current one; 0: the request fails.
RevalStatuses(sent, current) == {0, 200, 403} \cup (IF sent = current THEN {304} ELSE {})
\* What cache.set's GET /repos/{user}/{repo} can give as ETag: the current
\* one, none (null), or the request fails ("throw").
EtagAnswers(current) == {<<"throw">>, NullEtag, current}

\* ------------------------------------------------------------ documents
\* A document is a sequence of tokens: prose, a ```githubtracker block (its
\* lines, each split at ':'), or the text that replaced a block.
Prose(name) == [t |-> "text", body |-> << <<name>> >>]
Block(lines) == [t |-> "block", body |-> lines]
Out(text) == [t |-> "out", body |-> text]
\* a content that is not a string
NotAString == << [t |-> "#object", body |-> <<>>] >>
IsStringContent(content) == content # NotAString

LUser == <<"user", "gllmar">>
LRepo == <<"repo", "docsify-github-tracker">>
LOther == <<"repo", "notes">>
BDefault == Block(<<LUser, LRepo>>)
BLimit == Block(<<LUser, LRepo, <<"limit", "900">>, <<"debug", "true">> >>)
BRange == Block(<<LUser, LRepo, <<"start", "2025/01/18">>, <<"stop", "2025/01/20">> >>)
BStart == Block(<<LUser, LRepo, <<"start", "2025/01/20">> >>)
BFuture == Block(<<LUser, LRepo, <<"start", "2025/11/02">>, <<"stop", "2025/11/03">> >>)
BNotes == Block(<<LUser, LOther>>)
BStop == Block(<<LUser, LRepo, <<"stop", "2025/01/20">> >>)
BBadStart == Block(<<LUser, LRepo, <<"start", "soon">>, <<"stop", "2025/01/20">> >>)
BBadStop == Block(<<LUser, LRepo, <<"start", "2025/01/20">>, <<"stop", "soon">> >>)
BMonth13 == Block(<<LUser, LRepo, <<"start", "2025/13/01">>, <<"stop", "2025/02/30">> >>)
BZero == Block(<<LUser, LRepo, <<"start", "2025/00/10">>, <<"stop", "2025/01">> >>)

\* defaultOptions, as the strings a template renders them to
defaultOptions(ver) ==
  IF ver = 2
  THEN [k \in {"limit", "debug", "cacheTime", "checkInterval"} |->
          CASE k = "limit" -> "50" [] k = "debug" -> "true"
            [] k = "cacheTime" -> "300000" [] OTHER -> "30000"]
  ELSE [k \in {"limit", "debug", "cacheTime"} |->
          CASE k = "limit" -> "50" [] k = "debug" -> "true" [] OTHER -> "300000"]
\* lines.forEach: const [key, value] = line.split(':'); if (key && value) config[key] = value
RECURSIVE ConfigOf(_, _)
ConfigOf(lines, config) ==
  IF lines = <<>> THEN config
  ELSE LET line == Head(lines)
           key == IF Len(line) >= 1 THEN line[1] ELSE Undefined
           value == IF Len(line) >= 2 THEN line[2] ELSE Undefined
       IN ConfigOf(Tail(lines),
                   IF Truthy(key) /\ Truthy(value)
                   THEN [k \in DOMAIN config \cup {key} |-> IF k = key THEN value ELSE config[k]]
                   ELSE config)
Empty == [k \in {} |-> ""]
\* parseGithubTracker: one {raw, config} per block, in document order
RECURSIVE parseGithubTracker(_, _)
parseGithubTracker(ver, content) ==
  IF ~IsStringContent(content) \/ content = <<>> THEN <<>>
  ELSE LET tok == Head(content)
           rest == parseGithubTracker(ver, Tail(content))
       IN IF tok.t = "block"
          THEN << [raw |-> tok, config |-> ConfigOf(tok.body, Empty) @@ defaultOptions(ver)] >> \o rest
          ELSE rest
\* const { user, repo, limit, start, stop } = tracker.config
Get(config, k) == IF k \in DOMAIN config THEN config[k] ELSE Undefined

\* String.prototype.replace(raw, events) with a string pattern: the first
\* occurrence of raw only, and "$&" in the replacement stands for the match
Insertion(raw, events) ==
  IF \E i \in 1..Len(events) : events[i][Len(events[i])] = "$&"
  THEN << Out([i \in 1..Len(events) |->
                 IF events[i][Len(events[i])] = "$&"
                 THEN SubSeq(events[i], 1, Len(events[i]) - 1) \o <<"(matched text)">>
                 ELSE events[i]]), raw >>
  ELSE << Out(events) >>
RECURSIVE Replace(_, _, _)
Replace(content, raw, events) ==
  IF content = <<>> THEN <<>>
  ELSE IF Head(content) = raw THEN Insertion(raw, events) \o Tail(content)
  ELSE <<Head(content)>> \o Replace(Tail(content), raw, events)

\* ================================================================= state
VARIABLES
  version,   \* which version of the plugin is deployed (2 or 3)
  pages,     \* the documents of the site
  store,     \* localStorage: cache key -> item
  remote,    \* <<user, repo>> -> number of pushes the repository has had
  now,       \* Date.now(), in ms
  ticks,     \* clock advances so far
  hooks,     \* beforeEach invocations so far
  content,   \* the content the current invocation was given
  runs,      \* one record per tracker of the current invocation (fetchEvents)
  nexts      \* what next() has been called with in the current invocation
vars == <<version, pages, store, remote, now, ticks, hooks, content, runs, nexts>>

\* ---------------------------------------------------------- localStorage
\* JSON.stringify({data, timestamp, etag}); json = FALSE: text JSON.parse rejects
Item(data, timestamp, etag) ==
  [json |-> TRUE, data |-> data, timestamp |-> timestamp, etag |-> etag]
Garbage == [json |-> FALSE, data |-> <<>>, timestamp |-> 0, etag |-> NoEtag]
hasItem(st, key) == key \in DOMAIN st
getItem(st, key) == st[key]
setItem(st, key, item) == [k \in DOMAIN st \cup {key} |-> IF k = key THEN item ELSE st[k]]
removeItem(st, key) == [k \in DOMAIN st \ {key} |-> st[k]]

\* ---------------------------------------------------------- fetchEvents
\* The locals of one fetchEvents call.  pc: the await it is suspended at
\* ("reval": cache.get's conditional request, "events": the events request,
\* "etag": cache.set's request) or "done".  lookup, fresh, reval, events, seen,
\* kept, wrote record what happened to the call: what cache.get found and
\* whether its age was at most cacheTime, the status of the answer to its
\* conditional request, how the events request ended, how many events a
\* successful answer held and its remaining-quota header (until cache.set is
\* over), how many events were left after filtering, the item written.
NoItem == Item(NoResult, 0, NoEtag)
Run(pc, c, key, item, lookup) ==
  [pc |-> pc, user |-> c.user, repo |-> c.repo, limit |-> c.limit,
   start |-> c.start, stop |-> c.stop, key |-> key,
   data |-> item.data, timestamp |-> item.timestamp, etag |-> item.etag,
   raw |-> c.raw, toStore |-> <<>>, toReturn |-> <<>>, result |-> NoResult,
   lookup |-> lookup, fresh |-> lookup = "entry" /\ now - item.timestamp <= cacheTime,
   reval |-> -1, events |-> "none", seen |-> -1, quota |-> Undefined, kept |-> -1,
   wrote |-> NoItem]
Finished(run, value) ==
  [run EXCEPT !.pc = "done", !.result = value, !.toStore = <<>>, !.toReturn = <<>>,
              !.data = NoItem.data, !.timestamp = NoItem.timestamp, !.etag = NoItem.etag]

\* (mutant) a fresh entry is returned without the conditional request
LookupSkipsRevalidation(st, ver, c) ==
  LET key == getCacheKey(ver, c.user, c.repo, c.start, c.stop)
      item == IF hasItem(st, key) THEN getItem(st, key) ELSE NoItem
  IN IF ~hasItem(st, key)
     THEN [run |-> Run("events", c, key, NoItem, "absent"), store |-> st]
     ELSE IF ~item.json
     THEN [run |-> Finished(Run("done", c, key, NoItem, "unparsable"),
                            ErrorText(ver, c.user, c.repo, c.start, c.stop, "Unexpected token")),
           store |-> st]
     ELSE IF now - item.timestamp > cacheTime
     THEN [run |-> Run("events", c, key, NoItem, "expired"), store |-> removeItem(st, key)]
     ELSE [run |-> Finished(Run("done", c, key, item, "entry"), item.data), store |-> st]

\* fetchEvents up to its first suspension: getCacheKey, then cache.get up to
\* its conditional request (or, with nothing usable stored, the events request)
Lookup(st, ver, c) ==
  LET key == getCacheKey(ver, c.user, c.repo, c.start, c.stop)
      item == IF hasItem(st, key) THEN getItem(st, key) ELSE NoItem
  IN IF ~hasItem(st, key)
     THEN [run |-> Run("events", c, key, NoItem, "absent"), store |-> st]
     ELSE IF ~item.json
     THEN [run |-> Finished(Run("done", c, key, NoItem, "unparsable"),
                            ErrorText(ver, c.user, c.repo, c.start, c.stop, "Unexpected token")),
           store |-> st]
     ELSE IF ver = 3 /\ now - item.timestamp > cacheTime
     THEN [run |-> Run("events", c, key, NoItem, "expired"), store |-> removeItem(st, key)]
     ELSE [run |-> Run("reval", c, key, item, "entry"), store |-> st]

\* cache.get returned `value`: if (cached) return cached; else go on to the
\* events request
AfterGet(ver, run, value) ==
  IF TruthyText(value) THEN Finished(run, value)
  ELSE [run EXCEPT !.pc = "events", !.data = NoItem.data,
                   !.timestamp = NoItem.timestamp, !.etag = NoItem.etag]

\* (mutant) a 304 rewrites the entry with the time of the 304
AfterRevalResetsAge(st, ver, run, status) ==
  LET r == [run EXCEPT !.reval = status]
      gone == [run |-> [r EXCEPT !.pc = "events", !.data = NoItem.data,
                                 !.timestamp = NoItem.timestamp, !.etag = NoItem.etag],
               store |-> removeItem(st, r.key)]
      kept == [run |-> AfterGet(ver, r, r.data), store |-> st]
  IN IF status = 0
     THEN IF ver = 2 /\ now - r.timestamp > cacheTime THEN gone ELSE kept
     ELSE IF status # 304 THEN gone
     ELSE [kept EXCEPT !.store = setItem(st, r.key, Item(r.data, now, r.etag))]
\* (mutant) only a 200 answer counts as "changed"
AfterRevalKeepsOnError(st, ver, run, status) ==
  LET r == [run EXCEPT !.reval = status]
      gone == [run |-> [r EXCEPT !.pc = "events", !.data = NoItem.data,
                                 !.timestamp = NoItem.timestamp, !.etag = NoItem.etag],
               store |-> removeItem(st, r.key)]
      kept == [run |-> AfterGet(ver, r, r.data), store |-> st]
  IN IF status = 0
     THEN IF ver = 2 /\ now - r.timestamp > cacheTime THEN gone ELSE kept
     ELSE IF status = 200 THEN gone ELSE kept

\* cache.get resumes with the answer to its conditional request
\* (status 0: the request failed)
AfterReval(st, ver, run, status) ==
  LET r == [run EXCEPT !.reval = status]
      gone == [run |-> [r EXCEPT !.pc = "events", !.data = NoItem.data,
                                 !.timestamp = NoItem.timestamp, !.etag = NoItem.etag],
               store |-> removeItem(st, r.key)]
      kept == [run |-> AfterGet(ver, r, r.data), store |-> st]
  IN IF status = 0
     THEN IF ver = 2 /\ now - r.timestamp > cacheTime THEN gone ELSE kept
     ELSE IF status # 304 THEN gone ELSE kept

\* (mutant) the catch block leaves the call waiting for an answer
CatchWaits(ver, run, message) == run
\* (mutant) the catch block stores the error text like a result
CatchCachesError(ver, run, message) ==
  [run EXCEPT !.pc = "etag",
              !.toStore = ErrorText(ver, run.user, run.repo, run.start, run.stop, message),
              !.toReturn = ErrorText(ver, run.user, run.repo, run.start, run.stop, message)]
\* the catch block of fetchEvents: the error text is returned, nothing is stored
Catch(ver, run, message) ==
  Finished(run, ErrorText(ver, run.user, run.repo, run.start, run.stop, message))
\* await cache.set(cacheKey, data, user, repo); return value
Set(run, n, data, value) ==
  [run EXCEPT !.pc = "etag", !.kept = n, !.toStore = data, !.toReturn = value]

\* (mutant) every 403 answer counts as rate exhaustion
AfterEventsAny403(ver, run, resp, feed) ==
  IF resp.status = 0 THEN Catch(ver, run, "Failed to fetch")
  ELSE IF ver = 2
  THEN IF resp.body = "garbage" THEN Catch(ver, run, "Unexpected token")
       ELSE IF resp.body = "object" THEN Catch(ver, run, "is not a function")
       ELSE LET filteredEvents == filterEventsByDate(feed, run.start, run.stop)
                header == formatHeader(run.user, run.repo, run.start, run.stop)
            IN IF Len(filteredEvents) = 0
               THEN Set(run, 0, header \o NoEventsInRange, header \o NoEventsInRange)
               ELSE Set(run, Len(filteredEvents), header \o FormatAll(filteredEvents),
                        header \o FormatAll(filteredEvents))
  ELSE IF ~Ok(resp)
  THEN IF resp.status = 403
       THEN Finished(run, RateLimitText(ResetMs(resp.reset)))
       ELSE Catch(ver, run, "GitHub API error")
  ELSE IF resp.body = "garbage" THEN Catch(ver, run, "Unexpected token")
  ELSE IF resp.body = "object" THEN Catch(ver, run, "is not a function")
  ELSE LET formatted == FormatAll(feed)
           value == IF ParseInt(resp.remaining) # NaN /\ ParseInt(resp.remaining) < 10
                    THEN WarningLine(resp.remaining, ResetMs(resp.reset)) \o formatted
                    ELSE IF TruthyText(formatted) THEN formatted ELSE NoEventsFound
       IN IF TruthyText(formatted) THEN Set(run, Len(feed), formatted, value)
          ELSE Finished([run EXCEPT !.kept = Len(feed)], value)

\* fetchEvents resumes with the answer to the events request, up to cache.set's
\* request or to its return
AfterEvents(ver, run, resp, feed) ==
  IF resp.status = 0 THEN Catch(ver, run, "Failed to fetch")
  ELSE IF ver = 2
  THEN IF resp.body = "garbage" THEN Catch(ver, run, "Unexpected token")
       ELSE IF resp.body = "object" THEN Catch(ver, run, "is not a function")
       ELSE LET filteredEvents == filterEventsByDate(feed, run.start, run.stop)
                header == formatHeader(run.user, run.repo, run.start, run.stop)
            IN IF Len(filteredEvents) = 0
               THEN Set(run, 0, header \o NoEventsInRange, header \o NoEventsInRange)
               ELSE Set(run, Len(filteredEvents), header \o FormatAll(filteredEvents),
                        header \o FormatAll(filteredEvents))
  ELSE IF ~Ok(resp)
  THEN IF resp.status = 403 /\ resp.remaining = "0"
       THEN Finished(run, RateLimitText(ResetMs(resp.reset)))
       ELSE Catch(ver, run, "GitHub API error")
  ELSE IF resp.body = "garbage" THEN Catch(ver, run, "Unexpected token")
  ELSE IF resp.body = "object" THEN Catch(ver, run, "is not a function")
  ELSE LET formatted == FormatAll(feed)
           value == IF ParseInt(resp.remaining) # NaN /\ ParseInt(resp.remaining) < 10
                    THEN WarningLine(resp.remaining, ResetMs(resp.reset)) \o formatted
                    ELSE IF TruthyText(formatted) THEN formatted ELSE NoEventsFound
       IN IF TruthyText(formatted) THEN Set(run, Len(feed), formatted, value)
          ELSE Finished([run EXCEPT !.kept = Len(feed)], value)

\* how the answer to an events request is classed: rate exhaustion (403 with
\* no quota left), another failure, or success (a 2xx answer with the feed)
Outcome(resp) ==
  IF resp.status = 403 /\ resp.remaining = "0" THEN "ratelimit"
  ELSE IF Ok(resp) /\ resp.body = "array" THEN "ok"
  ELSE "failed"

\* (mutant) cache.set writes the text cache.get read instead of the new one
ItemToSetCachedData(run, answer) ==
  Item(run.data, now, IF answer = <<"throw">> THEN NoEtag ELSE answer)
\* cache.set resumes with the answer to its request and writes the item;
\* a failed request ("throw") writes it without an etag
ItemToSet(run, answer) ==
  Item(run.toStore, now, IF answer = <<"throw">> THEN NoEtag ELSE answer)

\* ---------------------------------------------------------- githubTracker
\* trackers.map(async tracker => ...): every call runs to its first suspension,
\* in document order, before any answer arrives
Tracker(ver, tr) ==
  [raw |-> tr.raw, user |-> Get(tr.config, "user"), repo |-> Get(tr.config, "repo"),
   limit |-> Get(tr.config, "limit"),
   start |-> IF ver = 2 THEN Get(tr.config, "start") ELSE Undefined,
   stop |-> IF ver = 2 THEN Get(tr.config, "stop") ELSE Undefined]
RECURSIVE LaunchAll(_, _, _)
LaunchAll(ver, trackers, st) ==
  IF trackers = <<>> THEN [runs |-> <<>>, store |-> st]
  ELSE LET first == Lookup(st, ver, Tracker(ver, Head(trackers)))
           rest == LaunchAll(ver, Tail(trackers), first.store)
       IN [runs |-> <<first.run>> \o rest.runs, store |-> rest.store]
\* results.forEach(({raw, events}) => { if (events && raw) newContent = newContent.replace(raw, events) })
RECURSIVE ReplaceAll(_, _)
ReplaceAll(newContent, results) ==
  IF results = <<>> THEN newContent
  ELSE ReplaceAll(IF TruthyText(Head(results).result)
                  THEN Replace(newContent, Head(results).raw, Head(results).result)
                  ELSE newContent,
                  Tail(results))

AllDone == \A i \in 1..Len(runs) : runs[i].pc = "done"
HookIdle == nexts # <<>>
RepoId(run) == <<Str(run.user), Str(run.repo)>>
RepoIds(docs) ==
  { <<Str(Get(tr.config, "user")), Str(Get(tr.config, "repo"))>> :
      tr \in UNION { {parseGithubTracker(2, d)[i] : i \in 1..Len(parseGithubTracker(2, d))} : d \in docs } }

\* hook.beforeEach((content, next) => ...), up to the suspension of every fetch
BeforeEach(c) ==
  /\ HookIdle
  /\ hooks < MaxHooks
  /\ hooks' = hooks + 1
  /\ content' = c
  /\ LET trackers == parseGithubTracker(version, c)
     IN IF trackers = <<>>
        THEN /\ nexts' = <<c>>
             /\ runs' = <<>>
             /\ store' = store
        ELSE LET l == LaunchAll(version, trackers, store)
             IN /\ nexts' = <<>>
                /\ runs' = l.runs
                /\ store' = l.store
  /\ UNCHANGED <<version, pages, remote, now, ticks>>

\* the answer to cache.get's conditional request arrives
RevalResponse(i, status) ==
  /\ runs[i].pc = "reval"
  /\ status \in RevalStatuses(runs[i].etag, ETagOf(runs[i].user, runs[i].repo, remote[RepoId(runs[i])]))
  /\ LET a == AfterReval(store, version, runs[i], status)
     IN /\ runs' = [runs EXCEPT ![i] = a.run]
        /\ store' = a.store
  /\ UNCHANGED <<version, pages, remote, now, ticks, hooks, content, nexts>>

\* the answer to the events request arrives (and its body is read)
EventsResponse(i, resp) ==
  /\ runs[i].pc = "events"
  /\ runs' = [runs EXCEPT ![i] =
                [AfterEvents(version, runs[i], resp, Feed(Str(runs[i].repo), remote[RepoId(runs[i])]))
                   EXCEPT !.events = Outcome(resp),
                          !.seen = IF Outcome(resp) = "ok"
                                   THEN Len(Feed(Str(runs[i].repo), remote[RepoId(runs[i])]))
                                   ELSE -1,
                          !.quota = IF Outcome(resp) = "ok" THEN resp.remaining ELSE Undefined]]
  /\ UNCHANGED <<version, pages, store, remote, now, ticks, hooks, content, nexts>>

\* the answer to cache.set's request arrives: the item is written and
\* fetchEvents returns
EtagResponse(i, answer) ==
  /\ runs[i].pc = "etag"
  /\ LET item == ItemToSet(runs[i], answer)
     IN /\ store' = setItem(store, runs[i].key, item)
        /\ runs' = [runs EXCEPT ![i] =
                      Finished([runs[i] EXCEPT !.wrote = item, !.quota = Undefined],
                               runs[i].toReturn)]
  /\ UNCHANGED <<version, pages, remote, now, ticks, hooks, content, nexts>>

\* Promise.all(...).then(...).catch(...): every block is replaced and next is
\* called; if next throws, the catch calls it again with the content
Then(nextThrows) ==
  /\ ~HookIdle
  /\ AllDone
  /\ LET newContent == ReplaceAll(content, runs)
     IN nexts' = IF nextThrows THEN <<newContent, content>> ELSE <<newContent>>
  /\ runs' = <<>>
  /\ UNCHANGED <<version, pages, store, remote, now, ticks, hooks, content>>

\* ----------------------------------------------------------- environment
Tick(d) ==
  /\ ticks < MaxTicks
  /\ ticks' = ticks + 1
  /\ now' = now + d
  /\ UNCHANGED <<version, pages, store, remote, hooks, content, runs, nexts>>

Push(id) ==
  /\ remote[id] < MaxRemote
  /\ remote' = [remote EXCEPT ![id] = @ + 1]
  /\ UNCHANGED <<version, pages, store, now, ticks, hooks, content, runs, nexts>>

\* -------------------------------------------------------- specifications
SitePages ==
  { <<Prose("intro"), BDefault>>,
    <<BStart, BDefault>>,
    <<BFuture>>,
    <<BNotes>> }
\* what an earlier, incompatible writer can have left under a key
KDefault == getCacheKey(3, "gllmar", "docsify-github-tracker", Undefined, Undefined)
Stores ==
  { Empty,
    [k \in {KDefault} |-> Garbage],
    [k \in {KDefault} |-> Item(NonString, 0, NoEtag)] }

InitWith(docs, stores) ==
  /\ version \in {2, 3}
  /\ pages = docs
  /\ store \in stores
  /\ remote = [id \in RepoIds(docs) |-> 0]
  /\ now = 0
  /\ ticks = 0
  /\ hooks = 0
  /\ content = <<>>
  /\ runs = <<>>
  /\ nexts = << <<>> >>

Init == InitWith(SitePages, {Empty})
\* the same site, visited with what an incompatible writer left in the store
InitStored == InitWith({ <<Prose("intro"), BDefault>>, <<BNotes>> }, Stores)

Next ==
  \/ \E c \in pages : BeforeEach(c)
  \/ \E i \in 1..Len(runs) : \E status \in {0, 200, 304, 403} : RevalResponse(i, status)
  \/ \E i \in 1..Len(runs) : \E resp \in EventsResponses : EventsResponse(i, resp)
  \/ \E i \in 1..Len(runs) :
       \E answer \in EtagAnswers(ETagOf(runs[i].user, runs[i].repo, remote[RepoId(runs[i])])) :
         EtagResponse(i, answer)
  \/ \E b \in BOOLEAN : Then(b)
  \/ \E d \in {1, cacheTime} : Tick(d)
  \/ \E id \in DOMAIN remote : Push(id)

\* a site whose documents hold several blocks, two of them identical
HookPages ==
  { <<BDefault, Prose("and"), BDefault>>,
    <<BLimit, BRange, Prose("end")>> }
InitHook == InitWith(HookPages, {Empty})
Spec == Init /\ [][Next]_vars
SpecHook == InitHook /\ [][Next]_vars
SpecStored == InitStored /\ [][Next]_vars

\* ================================================================ claims
IsRateLimitText(t) == \E resp \in EventsResponses : t = RateLimitText(ResetMs(resp.reset))
Launching == HookIdle /\ ~HookIdle'
RevalAnswered(i) == i \in 1..Len(runs) /\ runs[i].pc = "reval" /\ runs' # <<>> /\ runs'[i].reval # -1
Returns(i) == i \in 1..Len(runs) /\ runs[i].pc # "done" /\ runs' # <<>> /\ runs'[i].pc = "done"

\* C1 (as the spec states it): once a run's events request is answered with
\* rate exhaustion and a reset time R, the rate-limit message carrying R is
\* stored under the run's key; and a run that starts before R while such an
\* entry is stored returns that message without issuing any request.
C1_RateLimitIsCached ==
  [][ /\ \A i \in 1..Len(runs') :
           (runs'[i].pc = "done" /\ runs'[i].events = "ratelimit")
             => /\ hasItem(store', runs'[i].key)
                /\ getItem(store', runs'[i].key).data = runs'[i].result
      /\ Launching =>
           \A i \in 1..Len(runs') :
             (/\ hasItem(store, runs'[i].key)
              /\ getItem(store, runs'[i].key).json
              /\ \E resp \in EventsResponses :
                   /\ getItem(store, runs'[i].key).data = RateLimitText(ResetMs(resp.reset))
                   /\ now < ResetMs(resp.reset))
               => /\ runs'[i].pc = "done"
                  /\ runs'[i].result = getItem(store, runs'[i].key).data ]_vars

C3_NotModifiedResetsAge ==
  [][ \A i \in 1..Len(runs) :
        (RevalAnswered(i) /\ runs'[i].reval = 304)
          => /\ hasItem(store', runs[i].key)
             /\ getItem(store', runs[i].key).data = runs[i].data
             /\ getItem(store', runs[i].key).timestamp = now
             /\ runs'[i].result = runs[i].data ]_vars

\* C3 (amended): when the conditional request of a lookup is answered 304, the
\* store is left as it is (the entry keeps its text and its storedAt: its age
\* is not reset) and the lookup returns the text it read.
C3_NotModifiedKeepsEntry ==
  [][ \A i \in 1..Len(runs) :
        (RevalAnswered(i) /\ runs'[i].reval = 304)
          => /\ store' = store
             /\ runs'[i].pc = "done"
             /\ runs'[i].result = runs[i].data ]_vars
\* a 304 arrived for an entry that is still stored and is older than the 304
C3_Witness ==
  \E i \in 1..Len(runs) :
    /\ runs[i].pc = "done" /\ runs[i].reval = 304
    /\ hasItem(store, runs[i].key)
    /\ getItem(store, runs[i].key).data = runs[i].result
    /\ getItem(store, runs[i].key).timestamp < now

\* C4: when the conditional request of a lookup is answered with a status other
\* than 304, the entry is removed from the store, the lookup reports absent and
\* the run goes on to the events request.
C4_ChangedDiscardsEntry ==
  [][ \A i \in 1..Len(runs) :
        (RevalAnswered(i) /\ runs'[i].reval \notin {0, 304})
          => /\ ~hasItem(store', runs[i].key)
             /\ hasItem(store, runs[i].key) => store' = removeItem(store, runs[i].key)
             /\ runs'[i].pc = "events"
             /\ runs'[i].result = NoResult ]_vars
\* a run is at its events request after a 403 answer to its conditional
\* request, and its key holds nothing
C4_Witness ==
  \E i \in 1..Len(runs) :
    runs[i].pc = "events" /\ runs[i].reval = 403 /\ ~hasItem(store, runs[i].key)

\* what a run's own query renders to when the feed is `feed` and the quota is
\* not low
Rendering(ver, run, feed) ==
  IF ver = 2
  THEN formatHeader(run.user, run.repo, run.start, run.stop) \o
       (IF filterEventsByDate(feed, run.start, run.stop) = <<>> THEN NoEventsInRange
        ELSE FormatAll(filterEventsByDate(feed, run.start, run.stop)))
  ELSE IF FormatAll(feed) = <<>> THEN NoEventsFound ELSE FormatAll(feed)
Renderings(ver, run) == { Rendering(ver, run, Feed(Str(run.repo), v)) : v \in 0..MaxRemote }

\* C5 (as the spec states it): a query with date filtering active (start, stop
\* or both) never has the cache key of the query of the same owner and repo
\* with no start and no stop, so a run that returns a stored text returns a
\* rendering of its own (start, stop) query.
C5_FilteredKeysDiffer ==
  \A i \in 1..Len(runs) :
    /\ (Truthy(runs[i].start) \/ Truthy(runs[i].stop))
         => runs[i].key # getCacheKey(version, runs[i].user, runs[i].repo, Undefined, Undefined)
    /\ (runs[i].pc = "done" /\ runs[i].lookup = "entry" /\ runs[i].events = "none")
         => runs[i].result \in Renderings(version, runs[i])

Messages == {"Failed to fetch", "Unexpected token", "is not a function", "GitHub API error"}
IsErrorText(ver, run, t) ==
  \E m \in Messages : t = ErrorText(ver, run.user, run.repo, run.start, run.stop, m)
EventsAnswered(i) ==
  i \in 1..Len(runs) /\ runs[i].pc = "events" /\ runs' # <<>> /\ runs'[i].events # "none"

\* C6: when the events request fails for a reason other than rate exhaustion,
\* the run returns an error text and the failed fetch leaves the store as it
\* was: it creates no entry and overwrites none.
C6_FailureNotCached ==
  [][ \A i \in 1..Len(runs) :
        (EventsAnswered(i) /\ runs'[i].events = "failed")
          => /\ runs'[i].pc = "done"
             /\ IsErrorText(version, runs[i], runs'[i].result)
             /\ store' = store ]_vars
\* a run whose events request failed has returned while its key holds an entry
\* written before
C6_Witness ==
  \E i \in 1..Len(runs) :
    /\ runs[i].pc = "done" /\ runs[i].events = "failed"
    /\ hasItem(store, runs[i].key)
    /\ getItem(store, runs[i].key).data # runs[i].result

\* C7 (as the spec states it): whatever the store holds and whatever the remote
\* source answers, a run ends by returning a string.
C7_ReturnsString ==
  \A i \in 1..Len(runs) : runs[i].pc = "done" => IsString(runs[i].result)

\* the text of a run with no event to show
NoEventsText(ver, run) ==
  IF ver = 2 THEN formatHeader(run.user, run.repo, run.start, run.stop) \o NoEventsInRange
  ELSE NoEventsFound
\* C8 (as the spec states it): when the events request succeeds and no event is
\* left after date filtering, the run returns the header and the "no events
\* found" message, and on return the store holds that text under the run's key.
C8_EmptyResultCached ==
  [][ \A i \in 1..Len(runs) :
        (Returns(i) /\ runs'[i].events = "ok" /\ runs'[i].kept = 0)
          => /\ runs'[i].result = NoEventsText(version, runs[i])
             /\ hasItem(store', runs[i].key)
             /\ getItem(store', runs[i].key).data = runs'[i].result ]_vars

\* the document with its k-th block replaced by the output of the k-th fetch
RECURSIVE Positional(_, _)
Positional(doc, results) ==
  IF doc = <<>> THEN <<>>
  ELSE IF Head(doc).t = "block"
  THEN <<Out(Head(results).result)>> \o Positional(Tail(doc), Tail(results))
  ELSE <<Head(doc)>> \o Positional(Tail(doc), results)
Completing == ~HookIdle /\ HookIdle' /\ runs # <<>>

\* C9 (as the spec states it): when the hook completes, every block of the
\* document, identical blocks included, has been replaced by the output of the
\* fetch launched for that occurrence, whatever order the fetches ended in.
C9_EachBlockItsOwnOutput ==
  [][ Completing => nexts'[1] = Positional(content, runs) ]_vars

SameKey(k) == { i \in 1..Len(runs) : runs[i].key = k }
\* C10 (version 2, the code the claim is about): when two or more runs for the
\* same cache key execute concurrently and all of them have finished with
\* successful remote responses, each has returned a complete rendering of its
\* query, and the store holds under the key one well-formed entry: the one
\* written by one of them, with the text that run returned.
C10_ConcurrentSameKey ==
  (version = 2 /\ ~HookIdle /\ AllDone) =>
    \A i \in 1..Len(runs) :
      LET S == SameKey(runs[i].key)
      IN (Cardinality(S) >= 2 /\ \A j \in S : runs[j].events = "ok")
           => /\ runs[i].result \in Renderings(version, runs[i])
              /\ hasItem(store, runs[i].key)
              /\ getItem(store, runs[i].key).json
              /\ \E j \in S : /\ getItem(store, runs[i].key) = runs[j].wrote
                              /\ getItem(store, runs[i].key).data = runs[j].result
\* two runs for one key have both fetched and written, one of them after it
\* discarded an entry stored earlier, and one has overwritten the other's entry
C10_Witness ==
  /\ version = 2 /\ ~HookIdle /\ AllDone
  /\ \E i, j \in 1..Len(runs) :
       /\ i # j /\ runs[i].key = runs[j].key
       /\ runs[i].events = "ok" /\ runs[j].events = "ok"
       /\ runs[i].lookup = "entry"
       /\ runs[i].wrote # runs[j].wrote
       /\ getItem(store, runs[i].key) = runs[j].wrote

\* ------------------------------------------------------------- liveness
\* one rendering of a page with one block, then a second one
LivePages == { <<Prose("intro"), BDefault>> }
InitLive == InitWith(LivePages, {Empty})
\* a step of the invocation under way: a request is answered, or the callback
\* of Promise.all runs
Progress ==
  \/ \E i \in 1..Len(runs) : \E status \in {0, 200, 304, 403} : RevalResponse(i, status)
  \/ \E i \in 1..Len(runs) : \E resp \in EventsResponses : EventsResponse(i, resp)
  \/ \E i \in 1..Len(runs) :
       \E answer \in EtagAnswers(ETagOf(runs[i].user, runs[i].repo, remote[RepoId(runs[i])])) :
         EtagResponse(i, answer)
  \/ \E b \in BOOLEAN : Then(b)
\* every request is eventually answered or fails, and a callback that can run
\* eventually runs
SpecLive == InitLive /\ [][Next]_vars /\ WF_vars(Progress)

\* C11: an invocation of the hook on a document with directives eventually
\* hands a document to next, when every request is eventually answered or
\* fails; a failed events request gives that directive an error text.
C11_HookHandsOver ==
  /\ (~HookIdle) ~> HookIdle
  /\ [][ \A i \in 1..Len(runs) :
           (EventsAnswered(i) /\ runs'[i].events = "failed")
             => /\ runs'[i].pc = "done"
                /\ IsErrorText(version, runs[i], runs'[i].result) ]_vars
\* next has been given a document in which a block was replaced by an error text
C11_Witness ==
  /\ hooks > 0 /\ HookIdle
  /\ \E k \in 1..Len(nexts[1]) :
       /\ nexts[1][k].t = "out"
       /\ \E m \in Messages :
            nexts[1][k].body =
              ErrorText(version, "gllmar", "docsify-github-tracker", Undefined, Undefined, m)

\* ------------------------------------------------------- date-range pages
\* a site whose pages each hold one block with a start, a stop or both
DatePages ==
  { <<BRange>>, <<BStart>>, <<BStop>>, <<BBadStart>>, <<BBadStop>>, <<BMonth13>>, <<BZero>> }
InitDates == InitWith(DatePages, {Empty})
SpecDates == InitDates /\ [][Next]_vars

\* a YYYY/MM/DD literal that names a day of the calendar
IsValidDate(s) ==
  /\ Truthy(s)
  /\ LET p == DateParts(s)
     IN /\ Len(p) = 3
        /\ p[1] \in 1..9999 /\ p[2] \in 1..12
        /\ p[3] \in 1..MonthLen(p[1], p[2] - 1)
\* UTC midnight of the day a valid literal names
Midnight(s) == <<DateUTC(DateParts(s)[1], DateParts(s)[2] - 1, DateParts(s)[3]), 0>>
NextDay(t) == <<t[1] + 1, 0>>
\* the events of `feed` from midnight of start (when given) to the end of the
\* day of stop (when given)
InRange(feed, start, stop) ==
  SelectSeq(feed, LAMBDA ev :
    /\ Truthy(start) => Geq(ev.created, Midnight(start))
    /\ Truthy(stop) => Less(ev.created, NextDay(Midnight(stop))))
FeedOf(run) == Feed(Str(run.repo), remote[RepoId(run)])
TextOf(run, events) ==
  formatHeader(run.user, run.repo, run.start, run.stop) \o
  (IF events = <<>> THEN NoEventsInRange ELSE FormatAll(events))

\* C12: with a valid start D1 and a valid stop D2 (each may be absent), date
\* filtering keeps exactly the events created from D1 at UTC midnight up to,
\* not including, D2 at UTC midnight plus one day; an absent stop gives no upper
\* bound and an absent start no lower bound.
C12_FilterKeepsRange ==
  [][ \A i \in 1..Len(runs) :
        (/\ EventsAnswered(i) /\ runs'[i].events = "ok"
         /\ Truthy(runs[i].start) \/ Truthy(runs[i].stop)
         /\ Truthy(runs[i].start) => IsValidDate(runs[i].start)
         /\ Truthy(runs[i].stop) => IsValidDate(runs[i].stop))
          => /\ runs'[i].kept = Len(InRange(FeedOf(runs[i]), runs[i].start, runs[i].stop))
             /\ runs'[i].toStore =
                  TextOf(runs[i], InRange(FeedOf(runs[i]), runs[i].start, runs[i].stop)) ]_vars
\* of the three events e1 (18 January), e2 (last millisecond of 20 January) and
\* e3 (00:00:00 of 21 January), the query 18 to 20 January has kept e1 and e2
C12_Witness ==
  \E i \in 1..Len(runs) :
    /\ runs[i].events = "ok" /\ runs[i].seen = 3 /\ runs[i].kept = 2
    /\ runs[i].start = "2025/01/18" /\ runs[i].stop = "2025/01/20"

\* a bound the filter is given and parseDateTime cannot parse
Malformed(s) == Truthy(s) /\ ~parseDateTime(s).ok
\* the bound that is left of s when a malformed one counts as absent
Effective(s) == IF Malformed(s) THEN Undefined ELSE s

\* C13 (as the spec states it): when the start literal or the stop literal
\* fails to parse, filtering behaves as if that bound were absent and still
\* applies the other: a malformed start gives no lower bound, a malformed stop
\* no upper bound, and every event within the remaining valid bound is kept.
C13_MalformedBoundIsAbsent ==
  [][ \A i \in 1..Len(runs) :
        (/\ EventsAnswered(i) /\ runs'[i].events = "ok"
         /\ Malformed(runs[i].start) \/ Malformed(runs[i].stop)
         /\ Truthy(Effective(runs[i].start)) => IsValidDate(runs[i].start)
         /\ Truthy(Effective(runs[i].stop)) => IsValidDate(runs[i].stop))
          => runs'[i].kept =
               Len(InRange(FeedOf(runs[i]), Effective(runs[i].start), Effective(runs[i].stop))) ]_vars

\* the literals a run whose events request succeeded has had parsed
Parsed(run) == { s \in {run.start, run.stop} : Truthy(s) }

\* C14 (as the spec states it): date parsing reports failure for every literal
\* that is not a valid calendar date (a component that is not a number or is
\* zero, fewer than three components, a month above 12, a day the month does
\* not have), and gives UTC midnight of the same day for every valid literal.
C14_ParseRejectsInvalid ==
  \A i \in 1..Len(runs) :
    runs[i].events = "ok" =>
      \A s \in Parsed(runs[i]) :
        IF IsValidDate(s)
        THEN parseDateTime(s).ok /\ <<parseDateTime(s).day, 0>> = Midnight(s)
        ELSE ~parseDateTime(s).ok

\* C15 (version 3, the code the claim is about): an answer to the events
\* request is handled as rate exhaustion, with the rate-limit message, if and
\* only if its status is 403 and its remaining-quota header is "0"; a 403 with
\* quota left or with no header, and every other failure, ends in an error
\* text that is not the rate-limit message.
C15_RateLimitIffExhausted ==
  [][ \A i \in 1..Len(runs) :
        (version = 3 /\ EventsAnswered(i))
          => /\ runs'[i].events = "ratelimit"
                  <=> (runs'[i].pc = "done" /\ IsRateLimitText(runs'[i].result))
             /\ runs'[i].events = "failed"
                  => /\ runs'[i].pc = "done"
                     /\ IsErrorText(version, runs[i], runs'[i].result)
                     /\ ~IsRateLimitText(runs'[i].result) ]_vars
\* a version 3 run has returned the error text of a refused request (a 403 with
\* quota left or no header, or a 404)
C15_Witness ==
  /\ version = 3
  /\ \E i \in 1..Len(runs) :
       /\ runs[i].pc = "done" /\ runs[i].events = "failed"
       /\ runs[i].result = ErrorText(3, runs[i].user, runs[i].repo, Undefined, Undefined, "GitHub API error")

\* what a call returns, or is about to return once cache.set is over
Returned(run) == IF run.pc = "done" THEN run.result ELSE run.toReturn
LowQuota(remaining) == remaining \in {"0", "5"}
Warned(text, remaining) ==
  { WarningLine(resp.remaining, ResetMs(resp.reset)) \o text :
      resp \in { r \in EventsResponses : r.remaining = remaining } }

\* C16 (as the spec states it, version 3): when a successful answer to the
\* events request reports a remaining quota below 10, the call returns the
\* normal rendering (for no event, the "no events found" text) with one warning
\* line before it, and the rendering is still stored; with a quota of 10 or
\* more, or no quota header, it returns the normal rendering with no warning.
C16_LowQuotaWarning ==
  [][ \A i \in 1..Len(runs) :
        (version = 3 /\ EventsAnswered(i) /\ runs'[i].events = "ok")
          => LET normal == Rendering(3, runs[i], FeedOf(runs[i]))
             IN IF LowQuota(runs'[i].quota)
                THEN /\ Returned(runs'[i]) \in Warned(normal, runs'[i].quota)
                     /\ runs'[i].pc = "etag"
                     /\ runs'[i].toStore = normal
                ELSE Returned(runs'[i]) = normal ]_vars

\* an event whose rendering reads no payload field that is missing
WellFormed(ev) == ev.type \notin PayloadTypes \/ ev.payload
\* one rendering for each well-formed event, in the order of the events
Lines(events) ==
  LET good == SelectSeq(events, WellFormed)
  IN [k \in 1..Len(good) |-> formatEvent(good[k])[1]]
Preamble(ver, run) ==
  IF ver = 2 THEN formatHeader(run.user, run.repo, run.start, run.stop) ELSE <<>>
Shown(run) == filterEventsByDate(FeedOf(run), run.start, run.stop)

\* C17: when formatting one event of a batch raises an exception, only that
\* event is dropped: the run still succeeds and goes on to store its text,
\* which holds one rendering for each other event, in the original order, and
\* nothing for the malformed one.
C17_MalformedEventDropped ==
  [][ \A i \in 1..Len(runs) :
        (/\ EventsAnswered(i) /\ runs'[i].events = "ok"
         /\ \E k \in 1..Len(Shown(runs[i])) : ~WellFormed(Shown(runs[i])[k])
         /\ \E k \in 1..Len(Shown(runs[i])) : WellFormed(Shown(runs[i])[k]))
          => /\ runs'[i].pc = "etag"
             /\ runs'[i].toStore = Preamble(version, runs[i]) \o Lines(Shown(runs[i]))
             /\ Len(Lines(Shown(runs[i]))) < Len(Shown(runs[i])) ]_vars
\* a run given e3, e2 (malformed) and e1 has returned the renderings of e3 and
\* e1, in that order
C17_Witness ==
  \E i \in 1..Len(runs) :
    /\ runs[i].pc = "done" /\ runs[i].events = "ok" /\ runs[i].kept = 3
    /\ \E text \in Renderings(version, runs[i]) :
         /\ runs[i].wrote.data = text
         /\ Len(text) = Len(Preamble(version, runs[i])) + 2

\* C18 (as the spec states it): when the conditional request of a lookup
\* fails, the lookup returns the stored text if and only if the entry's age is
\* at most cacheTime; otherwise it removes the entry and reports absent, and
\* the run goes on to the events request.
C18_FailedRevalidationFallsBack ==
  [][ \A i \in 1..Len(runs) :
        (RevalAnswered(i) /\ runs'[i].reval = 0)
          => IF now - runs[i].timestamp <= cacheTime
             THEN /\ store' = store
                  /\ runs'[i].pc = "done"
                  /\ runs'[i].result = runs[i].data
             ELSE /\ ~hasItem(store', runs[i].key)
                  /\ runs'[i].pc = "events"
                  /\ runs'[i].result = NoResult ]_vars

HasLatest(text) == \E k \in 1..Len(text) : text[k] = <<"Latest events">>
HasRange(text) == \E k \in 1..Len(text) : text[k][1] = "Events from"

\* C19 (as the spec states it, version 2): the header of a rendered block
\* states the date range whenever date filtering was applied to the events
\* (start given, stop given, or both), and states "Latest events" if and only
\* if no date filtering was applied.
C19_HeaderStatesRange ==
  [][ \A i \in 1..Len(runs) :
        (version = 2 /\ EventsAnswered(i) /\ runs'[i].events = "ok")
          => LET filtering == Truthy(runs[i].start) \/ Truthy(runs[i].stop)
             IN /\ filtering => HasRange(runs'[i].toStore)
                /\ HasLatest(runs'[i].toStore) <=> ~filtering ]_vars

\* ------------------------------------------------------------ any content
\* what docsify can hand to the hook: a page with a block, a page without,
\* an empty content, a content that is not a string
PlainPages == { <<Prose("intro"), BDefault>>, <<Prose("plain")>>, <<>>, NotAString }
InitPlain == InitWith(PlainPages, {Empty})
SpecPlain == InitPlain /\ [][Next]_vars

\* C20 (as the spec states it): in every invocation of the hook next is called
\* exactly once: at once with the unchanged content when the content is not a
\* string, is empty or has no directive; with the replaced content when all
\* fetches are over; and never a second time, even when the call with the
\* replaced content throws.
C20_NextCalledOnce ==
  [][ /\ Len(nexts') <= 1
      /\ hooks' # hooks =>
           IF parseGithubTracker(version, content') = <<>>
           THEN nexts' = <<content'>>
           ELSE nexts' = <<>>
      /\ Completing => nexts' = <<ReplaceAll(content, runs)>> ]_vars

\* C21 (as the spec states it): the token stored with an entry stands for the
\* remote state its text was rendered from, so a lookup that is answered "not
\* modified" returns a text that renders the remote state of that moment, even
\* when the remote source changed between the events request and the token
\* request of the store operation.
C21_TokenMatchesText ==
  [][ \A i \in 1..Len(runs) :
        (RevalAnswered(i) /\ runs'[i].reval = 304)
          => runs[i].data = Rendering(version, runs[i], FeedOf(runs[i])) ]_vars

\* the item a call read when its lookup began
ItemRead(run) == Item(run.data, run.timestamp, run.etag)

\* C22 (as the spec states it): a lookup removes from the store only the entry
\* it read: when another run has stored a newer entry under the key while the
\* lookup waited for the answer to its conditional request, the lookup's
\* handling of the answer (not 304, or a failure with an expired age) leaves
\* that newer entry in the store.
C22_RemovesOnlyWhatItRead ==
  [][ \A i \in 1..Len(runs) :
        (/\ RevalAnswered(i)
         /\ hasItem(store, runs[i].key)
         /\ getItem(store, runs[i].key) # ItemRead(runs[i]))
          => /\ hasItem(store', runs[i].key)
             /\ getItem(store', runs[i].key) = getItem(store, runs[i].key) ]_vars

====
